---- MODULE Spec2Model ----
(***************************************************************************)
(* Model of content-engine/generator.py: the batch driver that turns       *)
(* pending keyword records into posts and moves them from the pending      *)
(* table (new_keywords.csv) to the processed table                         *)
(* (processed_keywords.csv).  One behaviour is a sequence of invocations   *)
(* of the script against the same files.                                   *)
(***************************************************************************)
EXTENDS Integers, Sequences, FiniteSets, TLC

VARIABLES
    inputFile,            \* INPUT_CSV_FILE on disk: [kind, rows]
    processedFile,        \* PROCESSED_CSV_FILE on disk: [kind, rows]
    blockFiles,           \* blocks/<file> on disk: category -> "missing" | "empty" | "lines"
    posts,                \* PUBLISHER_CONTENT_DIR: set of [slug, record] (one file per slug)
    gitLog,               \* processed_count of every git commit made by execute_git_push
    SYSTEM_MODE,          \* value of the mode flag of the current invocation
    pc,                   \* position of the script: "start", "loop", "commit", "snapshot", "end"
    status,               \* how the invocation ended: "running", "noop" (exit(0)), "finished"
    loaded_blocks,        \* category -> sequence of fragments
    all_keywords,         \* rows loaded by load_keywords
    batch,                \* keywords_to_process_batch
    idx,                  \* position of the for loop in batch (1-based)
    processed_batch_data, \* records marked processed in this invocation
    processed_count,      \* number of posts generated in this invocation
    results,              \* per batch position: "test", "ok", "IndexError", "OSError"
    delays,               \* number of time.sleep calls in this invocation
    atStart,              \* the files as the invocation found them
    origPending           \* records of the pending table at the first invocation

vars == <<inputFile, processedFile, blockFiles, posts, gitLog, SYSTEM_MODE, pc,
          status, loaded_blocks, all_keywords, batch, idx, processed_batch_data,
          processed_count, results, delays, atStart, origPending>>

files == <<inputFile, processedFile, posts, gitLog>>

------------------------------------------------------------------------------
(* Bounds of the model *)

\* longest pending table drawn freely over SmallRecords
MaxPending == 3
\* longest processed table present before the first invocation
MaxPrevious == 1

(* Program constants *)

NUM_POSTS_TO_GENERATE == 5
SLUG_MAX == 60
MIN_SECTIONS == 3
MAX_SECTIONS == 4

------------------------------------------------------------------------------
(* Records and titles *)

Range(s) == {s[i] : i \in DOMAIN s}

Min(a, b) == IF a < b THEN a ELSE b

Rec(k, t) == [keyword |-> k, title |-> t]

\* titles are sequences of characters
T_AB == <<"A", " ", "b">>
T_ab == <<"a", ":", "-", "b">>
T_c == <<"c">>
T_d == <<"d", ".">>

R1 == Rec("k1", T_AB)
R2 == Rec("k2", T_ab)
R3 == Rec("k3", T_c)
R4 == Rec("k4", T_d)

SmallRecords == {R1, R2}

\* str.lower() on one character
Lower(c) == CASE c = "A" -> "a" [] c = "B" -> "b" [] OTHER -> c

Stripped == {":", "/", ".", ","}

RECURSIVE SlugChars(_)
SlugChars(t) ==
    IF t = <<>> THEN <<>>
    ELSE LET c == Lower(Head(t))
             d == IF c = " " THEN "-" ELSE c
         IN  IF d \in Stripped THEN SlugChars(Tail(t))
             ELSE <<d>> \o SlugChars(Tail(t))

\* title.lower().replace(' ', '-').replace(':', '')....[:60]
Slug(title) ==
    LET s == SlugChars(title)
    IN  SubSeq(s, 1, Min(Len(s), SLUG_MAX))

------------------------------------------------------------------------------
(* Block Loader *)

Categories == {"intro", "explanation", "pros", "cons", "steps", "tips", "cta"}

PLACEHOLDER == "[Placeholder block content - please fill this file]"

\* load_blocks: a missing file gives the placeholder, an existing file its
\* non-blank lines (none for a file without a non-blank line)
LoadBlocks(bf) ==
    [c \in Categories |->
        CASE bf[c] = "missing" -> <<PLACEHOLDER>>
          [] bf[c] = "empty" -> <<>>
          [] OTHER -> <<c>>]

NoBlocks == [c \in Categories |-> <<>>]

------------------------------------------------------------------------------
(* Content Assembler *)

H2_SECTIONS == <<"Benefits-and-Advantages", "Key-Challenges",
                 "Practical-Steps-to-Implement", "Expert-Tips-and-Insights">>

\* the if/elif chain mapping a heading to its block category
BlockKey(h2) ==
    CASE h2 = "Benefits-and-Advantages" -> "pros"
      [] h2 = "Key-Challenges" -> "cons"
      [] h2 = "Practical-Steps-to-Implement" -> "steps"
      [] h2 = "Expert-Tips-and-Insights" -> "tips"

\* every sequence of k distinct positions among D
RECURSIVE Picks(_, _)
Picks(D, k) ==
    IF k = 0 THEN {<<>>}
    ELSE UNION {{<<i>> \o p : p \in Picks(D \ {i}, k - 1)} : i \in D}

\* random.sample(seq, k): the elements at k distinct positions, in any order
Sample(seq, k) == {[i \in 1..k |-> seq[p[i]]] : p \in Picks(DOMAIN seq, k)}

\* the categories random.choice is applied to, in order
UsedCategories(selected_h2) ==
    <<"intro">> \o [i \in DOMAIN selected_h2 |-> BlockKey(selected_h2[i])] \o <<"cta">>

\* generate_post_content for one choice of headings: random.choice raises
\* IndexError on an empty sequence, otherwise one section per category
\* plus the signature
AssembleWith(blocks, selected_h2) ==
    LET used == UsedCategories(selected_h2)
    IN  IF \E i \in DOMAIN used : blocks[used[i]] = <<>>
        THEN [error |-> "IndexError", sections |-> <<>>]
        ELSE [error |-> "none",
              sections |-> [i \in DOMAIN used |-> blocks[used[i]][1]]
                           \o <<"HUMAN_SIGNATURE">>]

\* every result generate_post_content can give for these blocks
Assemble(blocks) ==
    {AssembleWith(blocks, h) :
        h \in UNION {Sample(H2_SECTIONS, n) : n \in MIN_SECTIONS..MAX_SECTIONS}}

------------------------------------------------------------------------------
(* Keyword Ledger *)

\* variant of LoadKeywords: keeps the rows whatever the header holds
LoadKeywordsAnyHeader(f) == IF f.kind \in {"table", "other"} THEN f.rows ELSE <<>>

\* load_keywords: no rows from an absent or zero-size file, and none from a
\* table whose header lacks the keyword or the title column
LoadKeywords(f) == IF f.kind = "table" THEN f.rows ELSE <<>>

\* variant of WriteRemaining: leaves a table without rows instead of
\* removing the file
WriteRemainingKeepsFile(f, remaining_keywords) ==
    [kind |-> "table", rows |-> remaining_keywords]

\* lines 70-77 of update_keywords_csv: rewrite or remove the pending table
WriteRemaining(f, remaining_keywords) ==
    IF remaining_keywords # <<>>
    THEN [kind |-> "table", rows |-> remaining_keywords]
    ELSE IF f.kind # "absent" THEN [kind |-> "absent", rows |-> <<>>] ELSE f

\* lines 80-87: the previous rows; a missing, zero-size or unreadable table
\* gives none
PreviousProcessed(f) == IF f.kind = "table" THEN f.rows ELSE <<>>

\* variant of WriteProcessed: writes this invocation's rows only
WriteProcessedOnly(f, processed_keywords) ==
    IF processed_keywords # <<>>
    THEN [kind |-> "table", rows |-> processed_keywords]
    ELSE f

\* lines 90-98: the previous rows followed by the rows of this invocation
WriteProcessed(f, processed_keywords) ==
    LET all_processed == PreviousProcessed(f) \o processed_keywords
    IN  IF all_processed # <<>>
        THEN [kind |-> "table", rows |-> all_processed]
        ELSE f

\* variant of Remaining: drops every selected row, processed or not
RemainingOfBatch(all, processed) ==
    SelectSeq(all, LAMBDA k : k \notin Range(batch))

\* line 284: the pending rows not equal to a processed record
Remaining(all, processed) ==
    SelectSeq(all, LAMBDA k : k \notin Range(processed))

------------------------------------------------------------------------------
(* Document Emitter *)

\* generate_markdown_file: open(filepath, 'w') creates or replaces the file
\* named after the slug
WritePost(dir, r) ==
    {p \in dir : p.slug # Slug(r.title)} \cup {[slug |-> Slug(r.title), record |-> r]}

------------------------------------------------------------------------------
(* Initial states *)

RECURSIVE SeqsUpTo(_, _)
SeqsUpTo(S, n) ==
    IF n = 0 THEN {<<>>}
    ELSE LET shorter == SeqsUpTo(S, n - 1)
         IN  shorter \cup {Append(s, x) : s \in {t \in shorter : Len(t) = n - 1}, x \in S}

\* tables longer than the batch size
LongTables == {<<R1, R1, R1, R1, R1, R3>>, <<R1, R1, R2, R2, R3, R3>>}

InputFiles ==
    {[kind |-> "absent", rows |-> <<>>], [kind |-> "empty", rows |-> <<>>],
     [kind |-> "other", rows |-> <<R1>>]}
    \cup {[kind |-> "table", rows |-> t] : t \in SeqsUpTo(SmallRecords, MaxPending) \cup LongTables}

ProcessedFiles ==
    {[kind |-> "absent", rows |-> <<>>], [kind |-> "empty", rows |-> <<>>],
     [kind |-> "corrupt", rows |-> <<>>]}
    \cup {[kind |-> "table", rows |-> t] : t \in SeqsUpTo({R4}, MaxPrevious) \ {<<>>}}

AllLines == [c \in Categories |-> "lines"]

BlockFileStates ==
    {AllLines,
     [c \in Categories |-> IF c = "cta" THEN "missing" ELSE "lines"],
     [c \in Categories |-> IF c = "intro" THEN "empty" ELSE "lines"],
     [c \in Categories |-> IF c = "pros" THEN "empty" ELSE "lines"]}

Modes == {"TEST", "LIVE"}

\* the combinations of files the model starts from: every short pending
\* table with every processed table and every state of the block files, the
\* long tables with the block files in place
Scenario(inp, proc, bf) ==
    Len(inp.rows) > MaxPending => (proc.kind = "absent" /\ bf = AllLines)

Init ==
    /\ inputFile \in InputFiles
    /\ processedFile \in ProcessedFiles
    /\ blockFiles \in BlockFileStates
    /\ Scenario(inputFile, processedFile, blockFiles)
    /\ posts = {}
    /\ gitLog = <<>>
    /\ SYSTEM_MODE \in Modes
    /\ pc = "start"
    /\ status = "running"
    /\ loaded_blocks = NoBlocks
    /\ all_keywords = <<>>
    /\ batch = <<>>
    /\ idx = 1
    /\ processed_batch_data = <<>>
    /\ processed_count = 0
    /\ results = <<>>
    /\ delays = 0
    /\ atStart = files
    /\ origPending = Range(LoadKeywords(inputFile))

------------------------------------------------------------------------------
(* The script, lines 244-292 *)

\* lines 245-259: load the resources, exit when nothing is pending,
\* otherwise draw the batch
Start ==
    /\ pc = "start"
    /\ loaded_blocks' = LoadBlocks(blockFiles)
    /\ all_keywords' = LoadKeywords(inputFile)
    /\ IF LoadKeywords(inputFile) = <<>>
       THEN /\ pc' = "end"
            /\ status' = "noop"
            /\ batch' = <<>>
       ELSE /\ pc' = "loop"
            /\ status' = "running"
            /\ batch' \in Sample(LoadKeywords(inputFile),
                                 Min(Len(LoadKeywords(inputFile)), NUM_POSTS_TO_GENERATE))
    /\ UNCHANGED <<files, blockFiles, SYSTEM_MODE, idx, processed_batch_data,
                   processed_count, results, delays, atStart, origPending>>

\* variant of Outcomes: no TEST branch
OutcomesNoTest(mode, blocks) ==
    {IF a.error = "none" THEN "ok" ELSE a.error : a \in Assemble(blocks)}
    \cup (IF \E a \in Assemble(blocks) : a.error = "none" THEN {"OSError"} ELSE {})

\* what one pass of the loop body can come to: the TEST branch, or the
\* outcome of generate_post_content followed by generate_markdown_file
Outcomes(mode, blocks) ==
    IF mode = "TEST" THEN {"test"}
    ELSE {IF a.error = "none" THEN "ok" ELSE a.error : a \in Assemble(blocks)}
         \cup (IF \E a \in Assemble(blocks) : a.error = "none" THEN {"OSError"} ELSE {})

\* lines 261-281: one pass of the for loop
Step(res) ==
    /\ pc = "loop"
    /\ idx <= Len(batch)
    /\ results' = Append(results, res)
    /\ processed_batch_data' =
          IF res \in {"test", "ok"} THEN Append(processed_batch_data, batch[idx])
          ELSE processed_batch_data
    /\ processed_count' = IF res = "ok" THEN processed_count + 1 ELSE processed_count
    /\ delays' = IF res = "ok" THEN delays + 1 ELSE delays
    /\ posts' = IF res = "ok" THEN WritePost(posts, batch[idx]) ELSE posts
    /\ idx' = idx + 1
    /\ pc' = IF idx = Len(batch) THEN "commit" ELSE "loop"
    /\ UNCHANGED <<inputFile, processedFile, blockFiles, gitLog, SYSTEM_MODE, status,
                   loaded_blocks, all_keywords, batch, atStart, origPending>>

ProcessRecord == \E res \in Outcomes(SYSTEM_MODE, loaded_blocks) : Step(res)

\* lines 283-285: partition the pending rows and commit both tables
Commit ==
    /\ pc = "commit"
    /\ LET remaining_keywords == Remaining(all_keywords, processed_batch_data)
       IN  /\ inputFile' = WriteRemaining(inputFile, remaining_keywords)
           /\ processedFile' = WriteProcessed(processedFile, processed_batch_data)
    /\ pc' = "snapshot"
    /\ UNCHANGED <<blockFiles, posts, gitLog, SYSTEM_MODE, status, loaded_blocks,
                   all_keywords, batch, idx, processed_batch_data, processed_count,
                   results, delays, atStart, origPending>>

\* variant of ShouldPush: commits in LIVE mode whatever the count
ShouldPushAlways(count, mode) == mode = "LIVE"

\* line 287: whether execute_git_push is called
ShouldPush(count, mode) == count > 0 /\ mode = "LIVE"

\* lines 287-292: the git commit, when there is something to publish
Snapshot ==
    /\ pc = "snapshot"
    /\ gitLog' = IF ShouldPush(processed_count, SYSTEM_MODE)
                 THEN Append(gitLog, processed_count) ELSE gitLog
    /\ pc' = "end"
    /\ status' = "finished"
    /\ UNCHANGED <<inputFile, processedFile, blockFiles, posts, SYSTEM_MODE,
                   loaded_blocks, all_keywords, batch, idx, processed_batch_data,
                   processed_count, results, delays, atStart, origPending>>

\* the next invocation of the script, with the mode its environment gives
Invoke ==
    /\ pc = "end"
    /\ SYSTEM_MODE' \in Modes
    /\ pc' = "start"
    /\ status' = "running"
    /\ loaded_blocks' = NoBlocks
    /\ all_keywords' = <<>>
    /\ batch' = <<>>
    /\ idx' = 1
    /\ processed_batch_data' = <<>>
    /\ processed_count' = 0
    /\ results' = <<>>
    /\ delays' = 0
    /\ atStart' = files
    /\ UNCHANGED <<files, blockFiles, origPending>>

Next == Start \/ ProcessRecord \/ Commit \/ Snapshot \/ Invoke

Spec == Init /\ [][Next]_vars

------------------------------------------------------------------------------
(* Fairness: the script runs on and is invoked again, and a record that is  *)
(* attempted again and again is not refused for ever                        *)

Records == {R1, R2, R3, R4}

Succeed(r) == pc = "loop" /\ idx <= Len(batch) /\ batch[idx] = r /\ Step("ok")

\* longest pending table of the fair specification
MaxFairPending == 2

InitFair ==
    /\ Init
    /\ Len(inputFile.rows) <= MaxFairPending
    /\ processedFile.kind \in {"absent", "corrupt"}

FairSpec ==
    /\ InitFair
    /\ [][Next]_vars
    /\ WF_vars(Next)
    /\ \A r \in Records : SF_vars(Succeed(r))

------------------------------------------------------------------------------
(* Vocabulary of the properties *)

Finished == pc = "end" /\ status = "finished"

startInput == atStart[1]
startProcessed == atStart[2]
startPosts == atStart[3]
startGit == atStart[4]

\* the last n rows of a table
LastRows(rows, n) == SubSeq(rows, Len(rows) - n + 1, Len(rows))

IsPrefix(s, t) == Len(s) <= Len(t) /\ SubSeq(t, 1, Len(s)) = s

\* a pending table that gives no record
NoPending(f) == f.kind \in {"absent", "empty", "other"} \/ f.rows = <<>>

pushed == Len(gitLog) - Len(startGit)

------------------------------------------------------------------------------
(* C1 *)

\* C1: after a completed run on a non-empty pending table, the records
\* written back as pending and the records appended to the processed table
\* are disjoint as sets of values and together make up the original pending set.
C1_Partition ==
    Finished =>
        LET orig == Range(startInput.rows)
            rem == Range(LoadKeywords(inputFile))
            proc == Range(LastRows(processedFile.rows, Len(processed_batch_data)))
        IN  /\ orig # {}
            /\ LastRows(processedFile.rows, Len(processed_batch_data)) = processed_batch_data
            /\ rem \cap proc = {}
            /\ rem \cup proc = orig

C1_Witness ==
    /\ Finished
    /\ SYSTEM_MODE = "LIVE"
    /\ LoadKeywords(inputFile) # <<>>
    /\ processed_batch_data # <<>>
    /\ "OSError" \in Range(results)
    /\ Len(startInput.rows) > NUM_POSTS_TO_GENERATE

------------------------------------------------------------------------------
(* C2 *)

\* C2: in a LIVE run every selected record was attempted; one whose
\* Assemble or Emit failed is not in the processed set and is still in the
\* pending table after the run, one whose steps succeeded is in the
\* processed set.
C2_FailedStaysPending ==
    (Finished /\ SYSTEM_MODE = "LIVE") =>
        /\ Len(results) = Len(batch)
        /\ \A j \in DOMAIN batch :
              IF results[j] = "ok"
              THEN batch[j] \in Range(processed_batch_data)
              ELSE /\ batch[j] \notin Range(processed_batch_data)
                   /\ batch[j] \in Range(LoadKeywords(inputFile))

------------------------------------------------------------------------------
(* C3 *)

\* C3: a TEST run writes no post, and leaves n - min(n, 5) pending records
\* for the next run, n being the number of records it loaded.
C3_TestReducesBySelected ==
    (Finished /\ SYSTEM_MODE = "TEST") =>
        /\ posts = startPosts
        /\ Len(LoadKeywords(inputFile)) =
              Len(startInput.rows) - Min(Len(startInput.rows), NUM_POSTS_TO_GENERATE)

------------------------------------------------------------------------------
(* C4 *)

------------------------------------------------------------------------------
(* C5 *)

\* C5: a run makes at most one git commit; it makes one exactly when the
\* mode is LIVE and a record was processed successfully, and only at the
\* end, after every record of the batch was attempted and the ledger was
\* committed.
C5_SnapshotIff ==
    /\ pushed \in {0, 1}
    /\ status = "noop" => pushed = 0
    /\ Finished => (pushed = 1 <=> (SYSTEM_MODE = "LIVE" /\ "ok" \in Range(results)))
    /\ pushed = 1 =>
          /\ Finished
          /\ Len(results) = Len(batch)
          /\ gitLog[Len(gitLog)] = processed_count
          /\ processedFile.kind = "table"
          /\ LastRows(processedFile.rows, Len(processed_batch_data)) = processed_batch_data
          /\ Range(LoadKeywords(inputFile)) \cap Range(processed_batch_data) = {}

C5_Witness ==
    /\ Finished
    /\ pushed = 1
    /\ "OSError" \in Range(results)
    /\ Len(gitLog) > 1

------------------------------------------------------------------------------
(* C6 *)

\* C6: with a pending table that is absent, empty or gives no record, the
\* run ends at once as a no-op in either mode: nothing selected, no post,
\* both tables and the git log untouched.
C6_NoPendingNoOp ==
    (pc # "start" /\ NoPending(startInput)) =>
        /\ pc = "end"
        /\ status = "noop"
        /\ batch = <<>>
        /\ results = <<>>
        /\ delays = 0
        /\ files = atStart

C6_Witness ==
    /\ status = "noop"
    /\ startInput.kind = "other"
    /\ startInput.rows # <<>>
    /\ SYSTEM_MODE = "LIVE"

------------------------------------------------------------------------------
(* C7 *)

\* C7: while the processed table is readable, no step removes, changes or
\* reorders a row of it: the commit step leaves it as its previous rows
\* followed by exactly the records processed in this run, and no other step
\* touches it.
C7_AppendOnly ==
    [][processedFile.kind # "corrupt" =>
          IF pc = "commit"
          THEN processedFile'.rows = processedFile.rows \o processed_batch_data
          ELSE processedFile' = processedFile]_vars

C7_Witness ==
    /\ Finished
    /\ startProcessed.kind = "table"
    /\ startProcessed.rows # <<>>
    /\ processed_batch_data # <<>>
    /\ processedFile.rows = startProcessed.rows \o processed_batch_data

------------------------------------------------------------------------------
(* C8 *)

NoDuplicates(s) == \A i, j \in DOMAIN s : i # j => s[i] # s[j]

\* C8: distinct records processed in a LIVE run are written to distinct
\* files: starting from an empty output directory, a run that processed
\* pairwise distinct records leaves as many posts as it processed records.
C8_OneFilePerRecord ==
    (Finished /\ SYSTEM_MODE = "LIVE" /\ startPosts = {}
        /\ NoDuplicates(processed_batch_data)) =>
        Cardinality(posts) = Len(processed_batch_data)

------------------------------------------------------------------------------
(* C9 *)

\* C9: whatever the block loader produced, assembling succeeds and gives no
\* empty section: no attempt of the loop ends in an IndexError, and no
\* assembled content holds an empty section.
C9_AssembleNeverFails ==
    /\ "IndexError" \notin Range(results)
    /\ \A a \in Assemble(loaded_blocks) :
          \A i \in DOMAIN a.sections : a.sections[i] # ""

------------------------------------------------------------------------------
(* C10 *)

\* some choice of headings can be assembled from the block files
AssemblePossible == \E a \in Assemble(LoadBlocks(blockFiles)) : a.error = "none"

\* the pending table is gone and every originally pending record is in the
\* processed table
Drained ==
    /\ inputFile.kind = "absent"
    /\ origPending \subseteq Range(processedFile.rows)

\* no step makes the pending table longer, and a commit of at least one
\* processed record makes it strictly shorter
PendingShrinks ==
    [][/\ Len(LoadKeywords(inputFile')) <= Len(LoadKeywords(inputFile))
       /\ (pc = "commit" /\ processed_batch_data # <<>>) =>
              Len(LoadKeywords(inputFile')) < Len(LoadKeywords(inputFile))
       /\ pc # "commit" => inputFile' = inputFile]_vars

\* C10 as stated: from any pending table, repeated LIVE runs in which no
\* record fails for ever end with the pending table absent and every
\* originally pending record in the processed table, and no run grows the
\* pending table.
C10_EventuallyAbsent ==
    /\ PendingShrinks
    /\ (AssemblePossible /\ [](SYSTEM_MODE = "LIVE")) => <>Drained

\* C10 amended: the same, from any pending table that holds at least one
\* record; a table that gives no record is left as it is.
C10_EventuallyDrained ==
    /\ PendingShrinks
    /\ (origPending # {} /\ AssemblePossible /\ [](SYSTEM_MODE = "LIVE")) => <>Drained

C10_Witness ==
    /\ Drained
    /\ Cardinality(origPending) > 1
    /\ blockFiles # AllLines
    /\ Len(gitLog) > 1

====
